---- MODULE Spec2Model ----
(***************************************************************************)
(* greasygit: replay of a Greasy Fork script's version history into a git *)
(* repository (src/greasygit.py).  One run of main() is modelled as a      *)
(* sequential state machine; HTTP responses, prompt answers and the       *)
(* pre-existing state of the target directory are inputs.                 *)
(*                                                                         *)
(* Strings that the code takes apart (the canonical URL, names, paths)    *)
(* are sequences of characters; other strings are atoms.                  *)
(***************************************************************************)
EXTENDS Integers, Sequences, FiniteSets, TLC

VARIABLES pc, failure, script_id, including_all_versions, tagging,
          name, description, simple_name, repo_name, script_file_name,
          path, repo, page, versions, it, idx, version, code, last_tag,
          log, reported, slug, matched

vars == <<pc, failure, script_id, including_all_versions, tagging,
          name, description, simple_name, repo_name, script_file_name,
          path, repo, page, versions, it, idx, version, code, last_tag,
          log, reported, slug, matched>>

(***************************************************************************)
(* Bounds                                                                  *)
(***************************************************************************)
MaxVersions == 3
MaxSlugLen == 3

(***************************************************************************)
(* Python's None, for each of the places the code can hold it.             *)
(***************************************************************************)
NoMsg == "<None>"
NoTag == "<None>"
NoDate == <<>>
NoVersion == [number |-> 0, tag |-> NoTag, datetime |-> NoDate, message |-> NoMsg]

(***************************************************************************)
(* Input alphabets                                                         *)
(***************************************************************************)
ScriptIds == {12}
SlugIds == {1, 12}
Tags == {"1.0", "1.1"}
Messages == {"init", "fix bug"}
Codes == {"a", "b"}
SlugChars == {"1", "2", "-", "t", "%"}
HexDigits == {"1", "2"}

DateOf(n) == <<"t", n>>

RECURSIVE SeqsUpTo(_, _)
SeqsUpTo(S, n) ==
    IF n = 0 THEN {<<>>}
    ELSE LET shorter == SeqsUpTo(S, n - 1)
         IN  shorter \cup {Append(s, c) : s \in {t \in shorter : Len(t) = n - 1}, c \in S}

(***************************************************************************)
(* Pure helpers of the fetcher                                             *)
(***************************************************************************)
DigitChar == <<"0", "1", "2", "3", "4", "5", "6", "7", "8", "9">>

\* str(id) for a non-negative integer
RECURSIVE StrOfInt(_)
StrOfInt(n) ==
    IF n < 10 THEN <<DigitChar[n + 1]>>
    ELSE StrOfInt(n \div 10) \o <<DigitChar[(n % 10) + 1]>>

CharsOf(s) == {s[i] : i \in 1..Len(s)}

\* str.lstrip(chars): drop leading characters while they belong to chars
RECURSIVE LStrip(_, _)
LStrip(s, chars) ==
    IF s # <<>> /\ Head(s) \in chars THEN LStrip(Tail(s), chars) ELSE s

\* s.split("/")[-1]
RECURSIVE LastSegment(_)
LastSegment(s) ==
    IF \E i \in 1..Len(s) : s[i] = "/"
    THEN LastSegment(Tail(s))
    ELSE s

\* the character a %XY escape stands for
PercentChar(a, b) ==
    CASE a = "1" /\ b = "1" -> "\\x11"
      [] a = "1" /\ b = "2" -> "\\x12"
      [] a = "2" /\ b = "1" -> "!"
      [] a = "2" /\ b = "2" -> "'"

\* urllib.parse.unquote
RECURSIVE Unquote(_)
Unquote(s) ==
    IF s = <<>> THEN <<>>
    ELSE IF Head(s) = "%" /\ Len(s) >= 3 /\ s[2] \in HexDigits /\ s[3] \in HexDigits
         THEN <<PercentChar(s[2], s[3])>> \o Unquote(SubSeq(s, 4, Len(s)))
         ELSE <<Head(s)>> \o Unquote(Tail(s))

\* unquote(canon_url.split("/")[-1].lstrip(str(self.id) + "-"))
SimpleNameOf(id, canon_url) ==
    Unquote(LStrip(LastSegment(canon_url), CharsOf(StrOfInt(id) \o <<"-">>)))

UrlBase == <<"h", "/", "/", "g", "/", "e", "/", "s", "/">>
CanonUrl(id, sl) == UrlBase \o StrOfInt(id) \o <<"-">> \o sl

(***************************************************************************)
(* HTTP responses.  A request either raises (HttpError) or returns a      *)
(* document; documents are given by what the regular expressions find in  *)
(* them.                                                                   *)
(***************************************************************************)
HttpError == [status |-> "error"]

MainSlugs == {<<"t">>, <<"2", "1">>, <<>>}

\* homepage: header is the REGEX_METADATA match (if any), canon the
\* REGEX_LINK_CANONICAL match (if any)
Homepages(id) ==
    {HttpError} \cup
    {[status |-> "ok", header |-> h, canon |-> c] :
        h \in {<<>>, <<[name |-> "Name", description |-> "Desc"]>>},
        c \in {<<>>} \cup {<<CanonUrl(id, sl)>> : sl \in MainSlugs}}

\* one <li> of the history page, newest first; message holds the optional
\* "- message" group
HistoryItems(n) ==
    {[i \in 1..n |-> [number |-> n + 1 - i, tag |-> f[i][1],
                      datetime |-> DateOf(n + 1 - i), message |-> f[i][2]]] :
        f \in [1..n -> Tags \X ({<<>>} \cup {<<m>> : m \in Messages})]}

HistoryPages == UNION {HistoryItems(n) : n \in 0..MaxVersions}

\* Version(number, tag, datetime, message) of one REGEX_HISTORY match; an
\* unmatched optional group is None
VersionOf(item) ==
    [number |-> item.number, tag |-> item.tag, datetime |-> item.datetime,
     message |-> IF item.message = <<>> THEN NoMsg ELSE item.message[1]]

\* a parse that drops the entries without a message
ParseHistorySkipping(d) ==
    LET kept == SelectSeq(d, LAMBDA item : item.message # <<>>)
    IN  [i \in 1..Len(kept) |-> VersionOf(kept[i])]

\* list(get_versions(...)): the matches in page order
ParseHistory(d) == [i \in 1..Len(d) |-> VersionOf(d[i])]

\* a replay in page order
ReversedNot(s) == s

\* reversed(list(...))
Reversed(s) == [i \in 1..Len(s) |-> s[Len(s) + 1 - i]]

(***************************************************************************)
(* The git adapter.  A repository is the directory's .git state: its      *)
(* commit history, tags, working tree and index.                          *)
(***************************************************************************)
EmptyTree == <<>>
ReadmeFile == <<"README.md">>
OldTree == (<<"old">> :> "x")
Now == <<"now">>

Absent == [exists |-> FALSE, commits |-> <<>>, tags |-> {},
           work |-> EmptyTree, index |-> EmptyTree]
PreRepo == [exists |-> TRUE,
            commits |-> <<[message |-> "old", datetime |-> Now, tree |-> OldTree]>>,
            tags |-> {}, work |-> OldTree, index |-> OldTree]
DiskStates == {Absent, PreRepo}

HeadTree(r) == IF r.commits = <<>> THEN EmptyTree ELSE r.commits[Len(r.commits)].tree

\* README_TEMPLATE.format(**vars(gfscript))
Readme(nm, desc, id) == <<"README", nm, desc, id>>

\* git init <name>: creates the repository, or re-initialises an existing one
GitInit(disk) == [disk EXCEPT !.exists = TRUE]

\* write_file(self.path + file_path, content)
WriteFile(r, file, content) == [r EXCEPT !.work = (file :> content) @@ r.work]

\* git add <file> succeeds inside a repository only
AddOk(r) == r.exists
GitAdd(r, file) == [r EXCEPT !.index = (file :> r.work[file]) @@ r.index]

\* shlex.quote(message) as the shell hands it to git: None and "" become ''
QuoteMessage(message) == IF message = NoMsg THEN "" ELSE message

\* a commit that never passes --allow-empty
CommitOkStrict(r, allowing_empty) == r.exists /\ r.index # HeadTree(r)

\* git commit fails with nothing to commit unless --allow-empty is given
CommitOk(r, allowing_empty) ==
    r.exists /\ (allowing_empty \/ r.index # HeadTree(r))

\* GIT_AUTHOR_DATE / GIT_COMMITTER_DATE are set only for a truthy datetime
GitCommit(r, message, datetime) ==
    [r EXCEPT !.commits = Append(r.commits,
        [message |-> QuoteMessage(message),
         datetime |-> IF datetime # NoDate THEN datetime ELSE Now,
         tree |-> r.index])]

\* git tag <name> fails when the tag exists
TagOk(r, tagname) == r.exists /\ r.commits # <<>> /\ \A t \in r.tags : t[1] # tagname
GitTag(r, tagname) == [r EXCEPT !.tags = r.tags \cup {<<tagname, Len(r.commits)>>}]

\* one issued call, with the loop iteration (0 before the loop) it belongs to
Entry(op, arg, ok) == [op |-> op, arg |-> arg, ok |-> ok, ver |-> it]

Fail(reason) == pc' = "failed" /\ failure' = reason

\* which of the two patterns the homepage holds a match for ("none" before
\* the request)
NoMatch == [header |-> "none", canon |-> "none"]
Found(m) == IF m = <<>> THEN "missing" ELSE "found"

(***************************************************************************)
(* main()                                                                  *)
(***************************************************************************)
Init ==
    /\ pc = "prompt"
    /\ failure = "none"
    /\ script_id = 0
    /\ including_all_versions = FALSE
    /\ tagging = FALSE
    /\ name = ""
    /\ description = ""
    /\ simple_name = <<>>
    /\ repo_name = <<>>
    /\ script_file_name = <<>>
    /\ path = <<>>
    /\ repo = Absent
    /\ page = <<>>
    /\ versions = <<>>
    /\ it = 0
    /\ idx = [bound |-> FALSE, val |-> 0]
    /\ version = NoVersion
    /\ code = ""
    /\ last_tag = NoTag
    /\ log = <<>>
    /\ reported = 0
    /\ slug = <<>>
    /\ matched = NoMatch

\* the three leading input() calls
ReadOptions ==
    /\ pc = "prompt"
    /\ \E id \in ScriptIds, iav \in BOOLEAN, tg \in BOOLEAN :
          /\ script_id' = id
          /\ including_all_versions' = iav
          /\ tagging' = tg
    /\ pc' = "load"
    /\ UNCHANGED <<failure, name, description, simple_name, repo_name,
                   script_file_name, path, repo, page, versions, it, idx,
                   version, code, last_tag, log, reported, slug, matched>>

\* a loader that tolerates a missing canonical link
LoadMetadataLenient ==
    /\ pc = "load"
    /\ \E d \in Homepages(script_id) :
          IF d.status = "error"
          THEN Fail("http") /\ UNCHANGED <<name, description, simple_name, matched>>
          ELSE /\ matched' = [header |-> Found(d.header), canon |-> Found(d.canon)]
               /\ IF d.header = <<>>
                  THEN Fail("parse") /\ UNCHANGED <<name, description, simple_name>>
                  ELSE /\ name' = d.header[1].name
                       /\ description' = d.header[1].description
                       /\ simple_name' = IF d.canon = <<>> THEN <<>>
                                         ELSE SimpleNameOf(script_id, d.canon[1])
                       /\ pc' = "ask_names"
                       /\ UNCHANGED failure
    /\ UNCHANGED <<script_id, including_all_versions, tagging, repo_name,
                   script_file_name, path, repo, page, versions, it, idx,
                   version, code, last_tag, log, reported, slug>>

\* GreasyForkScript(script_id): __init__ and _load_metadata
LoadMetadata ==
    /\ pc = "load"
    /\ \E d \in Homepages(script_id) :
          IF d.status = "error"
          THEN Fail("http") /\ UNCHANGED <<name, description, simple_name, matched>>
          ELSE /\ matched' = [header |-> Found(d.header), canon |-> Found(d.canon)]
               /\ IF d.header = <<>>
                  THEN Fail("parse") /\ UNCHANGED <<name, description, simple_name>>
                  ELSE /\ name' = d.header[1].name
                       /\ description' = d.header[1].description
                       /\ IF d.canon = <<>>
                          THEN Fail("parse") /\ UNCHANGED simple_name
                          ELSE /\ simple_name' = SimpleNameOf(script_id, d.canon[1])
                               /\ pc' = "ask_names"
                               /\ UNCHANGED failure
    /\ UNCHANGED <<script_id, including_all_versions, tagging, repo_name,
                   script_file_name, path, repo, page, versions, it, idx,
                   version, code, last_tag, log, reported, slug>>

RepoNameInputs == {<<>>, <<"r">>}
FileNameInputs == {<<>>, <<"m">>}

\* the repo name and script file name prompts, with their defaults
AskNames ==
    /\ pc = "ask_names"
    /\ \E rin \in RepoNameInputs, fin \in FileNameInputs :
          LET rn == IF rin # <<>> THEN rin ELSE simple_name
          IN  /\ repo_name' = rn
              /\ script_file_name' = IF fin # <<>> THEN fin ELSE rn \o <<".js">>
    /\ pc' = "git_init"
    /\ UNCHANGED <<failure, script_id, including_all_versions, tagging, name,
                   description, simple_name, path, repo, page, versions, it,
                   idx, version, code, last_tag, log, reported, slug, matched>>

\* GitRepo(repo_name): a named target is a directory that does not exist
\* yet; with an empty name the target is the current directory, found in
\* one of DiskStates, and no git init is issued
GitRepoInit ==
    /\ pc = "git_init"
    /\ path' = (IF repo_name # <<>> THEN repo_name ELSE <<".">>) \o <<"/">>
    /\ IF repo_name # <<>>
       THEN /\ repo' = GitInit(Absent)
            /\ log' = Append(log, Entry("init", repo_name, TRUE))
       ELSE /\ \E disk \in DiskStates : repo' = disk
            /\ UNCHANGED log
    /\ pc' = "readme"
    /\ UNCHANGED <<failure, script_id, including_all_versions, tagging, name,
                   description, simple_name, repo_name, script_file_name, page,
                   versions, it, idx, version, code, last_tag, reported, slug, matched>>

\* git.update_and_add(file, content): write_file, then git add
UpdateAndAdd(file, content, next) ==
    LET written == WriteFile(repo, file, content)
        wlog == Append(log, Entry("write", <<path \o file, content>>, TRUE))
    IN  IF AddOk(written)
        THEN /\ repo' = GitAdd(written, file)
             /\ log' = Append(wlog, Entry("add", file, TRUE))
             /\ pc' = next
             /\ UNCHANGED failure
        ELSE /\ repo' = written
             /\ log' = Append(wlog, Entry("add", file, FALSE))
             /\ Fail("command")

\* git.commit(message, datetime, allowing_empty)
Commit(message, datetime, allowing_empty, next) ==
    IF CommitOk(repo, allowing_empty)
    THEN /\ repo' = GitCommit(repo, message, datetime)
         /\ log' = Append(log, Entry("commit", <<message, datetime, allowing_empty>>, TRUE))
         /\ pc' = next
         /\ UNCHANGED failure
    ELSE /\ log' = Append(log, Entry("commit", <<message, datetime, allowing_empty>>, FALSE))
         /\ Fail("command")
         /\ UNCHANGED repo

WriteReadme ==
    /\ pc = "readme"
    /\ UpdateAndAdd(ReadmeFile, Readme(name, description, script_id), "init_commit")
    /\ UNCHANGED <<script_id, including_all_versions, tagging, name,
                   description, simple_name, repo_name, script_file_name, path,
                   page, versions, it, idx, version, code, last_tag, reported, slug, matched>>

InitCommit ==
    /\ pc = "init_commit"
    /\ Commit("Init with greasygit", NoDate, FALSE, "get_versions")
    /\ UNCHANGED <<script_id, including_all_versions, tagging, name,
                   description, simple_name, repo_name, script_file_name, path,
                   page, versions, it, idx, version, code, last_tag, reported, slug, matched>>

\* versions = list(reversed(list(gfscript.get_versions(...)))); last_tag = None
GetVersions ==
    /\ pc = "get_versions"
    /\ \E d \in {HttpError} \cup {[status |-> "ok", items |-> p] : p \in HistoryPages} :
          IF d.status = "error"
          THEN Fail("http") /\ UNCHANGED <<page, versions>>
          ELSE /\ page' = d.items
               /\ versions' = Reversed(ParseHistory(d.items))
               /\ pc' = "loop"
               /\ UNCHANGED failure
    /\ last_tag' = NoTag
    /\ UNCHANGED <<script_id, including_all_versions, tagging, name,
                   description, simple_name, repo_name, script_file_name, path,
                   repo, it, idx, version, code, log, reported, slug, matched>>

\* a get_code that keeps the first blob it fetched
GetCodeCached(d) == IF code # "" THEN code ELSE d.text

\* get_code returns the body of the response to this request
GetCode(d) == d.text

\* for idx, version in enumerate(versions): code = gfscript.get_code(number)
FetchCode ==
    /\ pc = "loop"
    /\ it < Len(versions)
    /\ it' = it + 1
    /\ idx' = [bound |-> TRUE, val |-> it]
    /\ version' = versions[it + 1]
    /\ \E d \in {HttpError} \cup {[status |-> "ok", text |-> c] : c \in Codes} :
          IF d.status = "error"
          THEN /\ Fail("http")
               /\ log' = Append(log, [Entry("fetch", <<versions[it + 1].number, "">>, FALSE)
                                        EXCEPT !.ver = it + 1])
               /\ UNCHANGED code
          ELSE /\ code' = GetCode(d)
               /\ log' = Append(log, [Entry("fetch", <<versions[it + 1].number, d.text>>, TRUE)
                                        EXCEPT !.ver = it + 1])
               /\ pc' = "write"
               /\ UNCHANGED failure
    /\ UNCHANGED <<script_id, including_all_versions, tagging, name,
                   description, simple_name, repo_name, script_file_name, path,
                   repo, page, versions, last_tag, reported, slug, matched>>

WriteScript ==
    /\ pc = "write"
    /\ UpdateAndAdd(script_file_name, code, "commit")
    /\ UNCHANGED <<script_id, including_all_versions, tagging, name,
                   description, simple_name, repo_name, script_file_name, path,
                   page, versions, it, idx, version, code, last_tag, reported, slug, matched>>

CommitVersion ==
    /\ pc = "commit"
    /\ Commit(version.message, version.datetime, including_all_versions, "tag")
    /\ UNCHANGED <<script_id, including_all_versions, tagging, name,
                   description, simple_name, repo_name, script_file_name, path,
                   page, versions, it, idx, version, code, last_tag, reported, slug, matched>>

\* a tag step that does not compare with last_tag
ShouldTagAlways(tg, vtag, last) == tg

\* if tagging: if version.tag != last_tag:
ShouldTag(tg, vtag, last) == tg /\ vtag # last

\* if tagging: if version.tag != last_tag: git.tag(version.tag)
\*             last_tag = version.tag
TagVersion ==
    /\ pc = "tag"
    /\ IF ShouldTag(tagging, version.tag, last_tag)
       THEN IF TagOk(repo, version.tag)
            THEN /\ repo' = GitTag(repo, version.tag)
                 /\ log' = Append(log, Entry("tag", version.tag, TRUE))
                 /\ last_tag' = version.tag
                 /\ pc' = "loop"
                 /\ UNCHANGED failure
            ELSE /\ log' = Append(log, Entry("tag", version.tag, FALSE))
                 /\ Fail("command")
                 /\ UNCHANGED <<repo, last_tag>>
       ELSE /\ last_tag' = IF tagging THEN version.tag ELSE last_tag
            /\ pc' = "loop"
            /\ UNCHANGED <<repo, log, failure>>
    /\ UNCHANGED <<script_id, including_all_versions, tagging, name,
                   description, simple_name, repo_name, script_file_name, path,
                   page, versions, it, idx, version, code, reported, slug, matched>>

\* print(f"Done with 1 + {idx + 1} commits."): idx is unbound when the loop
\* body never ran
Summary ==
    /\ pc = "loop"
    /\ it = Len(versions)
    /\ IF idx.bound
       THEN /\ reported' = 1 + (idx.val + 1)
            /\ pc' = "done"
            /\ UNCHANGED failure
       ELSE /\ Fail("unbound")
            /\ UNCHANGED reported
    /\ UNCHANGED <<script_id, including_all_versions, tagging, name,
                   description, simple_name, repo_name, script_file_name, path,
                   repo, page, versions, it, idx, version, code, last_tag, log, slug, matched>>

Next ==
    \/ ReadOptions
    \/ LoadMetadata
    \/ AskNames
    \/ GitRepoInit
    \/ WriteReadme
    \/ InitCommit
    \/ GetVersions
    \/ FetchCode
    \/ WriteScript
    \/ CommitVersion
    \/ TagVersion
    \/ Summary

Spec == Init /\ [][Next]_vars

(***************************************************************************)
(* The simple-name derivation on its own, over every short slug.          *)
(***************************************************************************)
InitName ==
    /\ pc = "name_start"
    /\ failure = "none"
    /\ script_id \in SlugIds
    /\ slug \in SeqsUpTo(SlugChars, MaxSlugLen)
    /\ including_all_versions = FALSE
    /\ tagging = FALSE
    /\ name = ""
    /\ description = ""
    /\ simple_name = <<>>
    /\ repo_name = <<>>
    /\ script_file_name = <<>>
    /\ path = <<>>
    /\ repo = Absent
    /\ page = <<>>
    /\ versions = <<>>
    /\ it = 0
    /\ idx = [bound |-> FALSE, val |-> 0]
    /\ version = NoVersion
    /\ code = ""
    /\ last_tag = NoTag
    /\ log = <<>>
    /\ reported = 0
    /\ matched = NoMatch

DeriveName ==
    /\ pc = "name_start"
    /\ simple_name' = SimpleNameOf(script_id, CanonUrl(script_id, slug))
    /\ pc' = "name_done"
    /\ UNCHANGED <<failure, script_id, including_all_versions, tagging, name,
                   description, repo_name, script_file_name, path, repo, page,
                   versions, it, idx, version, code, last_tag, log, reported, slug, matched>>

NextName == DeriveName

SpecName == InitName /\ [][NextName]_vars

(***************************************************************************)
(* Properties                                                              *)
(***************************************************************************)
Idx(op) == {i \in 1..Len(log) : log[i].op = op}
OkIdx(op) == {i \in Idx(op) : log[i].ok}

\* the commits this run added to the history of the target repository
RunCommits ==
    LET n == Cardinality(OkIdx("commit"))
    IN  SubSeq(repo.commits, Len(repo.commits) - n + 1, Len(repo.commits))

TagsCreated == {log[i].arg : i \in OkIdx("tag")}

Ended == pc \in {"done", "failed"}

\* the run works in a repository it has initialised itself
OwnRepo == \E i \in 1..Len(log) : log[i].op = "init"

\* every listed version has been through the loop body
Replayed ==
    /\ pc \in {"loop", "done", "failed"}
    /\ it = Len(versions)
    /\ pc = "failed" => failure = "unbound"

\* the k-th replayed version, as the page lists it
Listed(k) == page[Len(page) + 1 - k]
ListedMessage(k) == IF Listed(k).message = <<>> THEN "" ELSE Listed(k).message[1]

\* C1: once every listed version has been replayed without failure, the run
\* has made the init commit followed by exactly N version commits, the k-th
\* carrying the message and the datetime of the k-th entry from the bottom of
\* the page (an absent message being an empty one).
C1_OldestFirst ==
    Replayed =>
        /\ Len(RunCommits) = Len(page) + 1
        /\ RunCommits[1].message = "Init with greasygit"
        /\ \A k \in 1..Len(page) :
              /\ RunCommits[k + 1].message = ListedMessage(k)
              /\ RunCommits[k + 1].datetime = Listed(k).datetime

C1_Witness ==
    /\ pc = "done"
    /\ Len(page) >= 2
    /\ page[1].message # page[2].message
    /\ Len(RunCommits) = Len(page) + 1

CommitEntries(k) == {i \in OkIdx("commit") : log[i].ver = k}
TagEntries(k) == {i \in Idx("tag") : log[i].ver = k}
TagStepDone(k) == CommitEntries(k) # {} /\ ~(k = it /\ pc = "tag")

\* C2: with tagging enabled, a version that has been through the tag step
\* has a tag call iff it is the first replayed version or its tag differs
\* from the preceding replayed version's; the call is unique, names the
\* version's tag, directly follows that version's commit and precedes every
\* later version's commit.
C2_TagOnChange ==
    tagging =>
        \A k \in 1..it :
            IF TagStepDone(k)
            THEN /\ (TagEntries(k) # {}) <=> (k = 1 \/ Listed(k).tag # Listed(k - 1).tag)
                 /\ Cardinality(TagEntries(k)) <= 1
                 /\ \A i \in TagEntries(k) :
                       /\ log[i].arg = Listed(k).tag
                       /\ log[i - 1].op = "commit" /\ log[i - 1].ok /\ log[i - 1].ver = k
                       /\ \A j \in Idx("commit") : log[j].ver > k => j > i
            ELSE TagEntries(k) = {}

C2_Witness ==
    /\ tagging
    /\ pc = "done"
    /\ Len(page) >= 3
    /\ Listed(1).tag = Listed(2).tag
    /\ Listed(2).tag # Listed(3).tag
    /\ Cardinality(TagEntries(1)) = 1
    /\ TagEntries(2) = {}
    /\ Cardinality(TagEntries(3)) = 1

\* C3: with include-unchanged-versions enabled no version's commit is
\* refused, also when the staged code equals the committed one, and a
\* completed run has made exactly N + 1 commits.
C3_UnchangedCommitted ==
    including_all_versions =>
        /\ \A i \in Idx("commit") : log[i].ver >= 1 => log[i].ok
        /\ pc = "done" => Len(RunCommits) = Len(page) + 1

C3_Witness ==
    /\ including_all_versions
    /\ pc = "done"
    /\ \E k \in 3..Len(RunCommits) : RunCommits[k].tree = RunCommits[k - 1].tree
    /\ Len(RunCommits) = Len(page) + 1

\* the page of the example: versions 1, 2, 3, listed newest first
ExamplePage ==
    <<[number |-> 3, tag |-> "1.1", datetime |-> DateOf(3), message |-> <<"fix bug">>],
      [number |-> 2, tag |-> "1.0", datetime |-> DateOf(2), message |-> <<>>],
      [number |-> 1, tag |-> "1.0", datetime |-> DateOf(1), message |-> <<"init">>]>>

ExampleRun ==
    /\ page = ExamplePage
    /\ ~including_all_versions
    /\ Ended
    /\ failure # "http"

FetchOf(n) == {i \in OkIdx("fetch") : log[i].arg[1] = n}
CodeOf(n) == log[CHOOSE i \in FetchOf(n) : TRUE].arg[2]
LastCall == log[Len(log)]
RefusedAt(k) ==
    /\ pc = "failed" /\ failure = "command"
    /\ LastCall.op = "commit" /\ ~LastCall.ok /\ LastCall.ver = k

\* C4 as stated: on the example page with include-unchanged-versions off,
\* version 2 is skipped, the run completes with the init commit and the
\* commits of versions 1 and 3, and the tags are "1.0" and "1.1" (taken for
\* a run in its own freshly initialised repository).
C4_Original ==
    (ExampleRun /\ tagging /\ OwnRepo) =>
        /\ pc = "done"
        /\ Len(RunCommits) = 3
        /\ RunCommits[2].datetime = DateOf(1)
        /\ RunCommits[3].datetime = DateOf(3)
        /\ FetchOf(2) = {}
        /\ TagsCreated = {"1.0", "1.1"}

\* C4 amended: on the example page with include-unchanged-versions off, in
\* a run whose HTTP requests all succeed, no version is skipped.  Version 2 is fetched and its commit attempted
\* without --allow-empty: the run stops at the first version whose code
\* equals its predecessor's (version 2: one version commit and tag "1.0";
\* version 3: two version commits and tag "1.0"), and otherwise completes
\* with three version commits and the tags "1.0" and "1.1".
C4_NothingSkipped ==
    ExampleRun =>
        /\ FetchOf(1) # {} /\ FetchOf(2) # {}
        /\ IF CodeOf(2) = CodeOf(1)
           THEN /\ RefusedAt(2)
                /\ Len(RunCommits) = 2
                /\ TagsCreated = IF tagging THEN {"1.0"} ELSE {}
           ELSE /\ FetchOf(3) # {}
                /\ IF CodeOf(3) = CodeOf(2)
                   THEN /\ RefusedAt(3)
                        /\ Len(RunCommits) = 3
                        /\ TagsCreated = IF tagging THEN {"1.0"} ELSE {}
                   ELSE /\ pc = "done"
                        /\ Len(RunCommits) = 4
                        /\ RunCommits[3].message = ""
                        /\ RunCommits[3].datetime = DateOf(2)
                        /\ TagsCreated = IF tagging THEN {"1.0", "1.1"} ELSE {}

C4_Witness ==
    /\ ExampleRun
    /\ tagging
    /\ FetchOf(2) # {}
    /\ CodeOf(2) = CodeOf(1)
    /\ RefusedAt(2)

GitOps == {"init", "write", "add", "commit", "tag"}

\* C5: a homepage without a header match or without a canonical link ends
\* the run with a parse failure before any repository operation is issued.
C5_NoRepoOnBadHomepage ==
    (matched.header = "missing" \/ matched.canon = "missing") =>
        /\ pc = "failed"
        /\ failure = "parse"
        /\ \A i \in 1..Len(log) : log[i].op \notin GitOps
        /\ repo = Absent

C5_Witness ==
    /\ matched.header = "found"
    /\ matched.canon = "missing"
    /\ pc = "failed"

\* C6: no version number is fetched twice and a completed run has fetched
\* every listed one; the k-th fetch is for the k-th replayed version and
\* comes after k - 1 version commits; the calls that follow a fetch are the
\* write of the fetched blob, its add and that version's commit, whose tree
\* holds the fetched blob.
C6_FetchThenCommit ==
    /\ \A i, j \in Idx("fetch") : i # j => log[i].arg[1] # log[j].arg[1]
    /\ pc = "done" => \A n \in 1..Len(page) : FetchOf(page[n].number) # {}
    /\ \A i \in OkIdx("fetch") :
          LET k == log[i].ver
              blob == log[i].arg[2]
          IN  /\ log[i].arg[1] = Listed(k).number
              /\ Cardinality({j \in OkIdx("commit") : j < i /\ log[j].ver >= 1}) = k - 1
              /\ i + 1 <= Len(log) =>
                    /\ log[i + 1].op = "write"
                    /\ log[i + 1].arg = <<path \o script_file_name, blob>>
              /\ i + 2 <= Len(log) => log[i + 2].op = "add"
              /\ i + 3 <= Len(log) =>
                    /\ log[i + 3].op = "commit"
                    /\ log[i + 3].ver = k
                    /\ log[i + 3].ok => RunCommits[k + 1].tree[script_file_name] = blob

C6_Witness ==
    /\ pc = "done"
    /\ \E i, j \in OkIdx("fetch") : i < j /\ log[i].arg[2] # log[j].arg[2]

\* C7 as stated: the simple name is the percent-decoding of the slug, i.e.
\* of the last path segment without its leading "<id>-".
C7_PrefixOnly == pc = "name_done" => simple_name = Unquote(slug)

\* C8 as stated: a run ends in failure only through an HTTP, parse or
\* command failure, and a run that ends otherwise has printed the summary
\* with a count of 1 plus the version commits made (taken for a run in its
\* own freshly initialised repository).
C8_SummaryAlways ==
    OwnRepo =>
        /\ pc = "failed" => failure \in {"http", "parse", "command"}
        /\ pc = "done" => reported = Len(RunCommits)

\* C9 as stated: no tag call names a tag that an earlier call of this run
\* created (taken for a run in its own freshly initialised repository).
C9_NoTagTwice ==
    OwnRepo =>
        \A i, j \in Idx("tag") : (i < j /\ log[i].ok) => log[j].arg # log[i].arg

\* C10 as stated: every write, add, commit and tag is preceded by a git init
\* issued by this run.
C10_InitFirst ==
    \A i \in 1..Len(log) :
        log[i].op \in GitOps \ {"init"} => \E j \in 1..(i - 1) : log[j].op = "init"

====
